---- MODULE Spec2Model ----
(***************************************************************************)
(* flat-tree: a binary tree laid out in a flat, zero-indexed sequence.     *)
(*                                                                         *)
(*   src/src/lib.rs       the stateless position functions and the         *)
(*                        full-roots iterator                              *)
(*   src/src/iterator.rs  the cursor (struct Iterator) and two_pow         *)
(*                                                                         *)
(* Every number of the program is a usize.  The model keeps the word       *)
(* width: a word has UsizeBits bits, shifts drop the bits they push out,   *)
(* and +, -, * are taken modulo 2^UsizeBits.  UsizeBits is much smaller    *)
(* than the 64 bits of the usual target so that TLC can enumerate every    *)
(* word.                                                                   *)
(***************************************************************************)
EXTENDS Integers, Sequences, FiniteSets, TLC

\* The number of bits of a usize in the model.
UsizeBits == 6

\* The largest boundary handed to iter_full_roots / full_roots.
MaxBoundary == 44

\* The longest Vec that full_roots is asked to extend.
MaxNodes == 3

UsizeMod == 2 ^ UsizeBits
UsizeMax == UsizeMod - 1
Usize == 0 .. UsizeMax

(***************************************************************************)
(* usize arithmetic.  A release build wraps +, -, * and masks a shift      *)
(* amount that reaches the width; a debug build panics in those cases.     *)
(* The operators below compute the release result; the NoOverflow_*        *)
(* predicates further down say where neither build leaves the width.       *)
(***************************************************************************)
Add(a, b) == (a + b) % UsizeMod
Sub(a, b) == (a + UsizeMod - b) % UsizeMod
Mul(a, b) == (a * b) % UsizeMod
Div(a, b) == a \div b
Shl(x, n) == (x * 2 ^ (n % UsizeBits)) % UsizeMod
Shr(x, n) == x \div 2 ^ (n % UsizeBits)

RECURSIVE BitAnd(_, _)
BitAnd(a, b) ==
  IF a = 0 \/ b = 0 THEN 0
  ELSE (IF a % 2 = 1 /\ b % 2 = 1 THEN 1 ELSE 0) + 2 * BitAnd(a \div 2, b \div 2)

RECURSIVE BitOr(_, _)
BitOr(a, b) ==
  IF a = 0 THEN b
  ELSE IF b = 0 THEN a
  ELSE (IF a % 2 = 1 \/ b % 2 = 1 THEN 1 ELSE 0) + 2 * BitOr(a \div 2, b \div 2)

RECURSIVE BitXor(_, _)
BitXor(a, b) ==
  IF a = 0 THEN b
  ELSE IF b = 0 THEN a
  ELSE (IF a % 2 # b % 2 THEN 1 ELSE 0) + 2 * BitXor(a \div 2, b \div 2)

\* Option<T>: None is the empty tuple, Some(v) the one-element tuple.
None == << >>
Some(v) == << v >>

(***************************************************************************)
(* lib.rs: the stateless position functions.                               *)
(***************************************************************************)
is_even(num) == BitAnd(num, 1) = 0
is_odd(num) == BitAnd(num, 1) # 0

index(d, o) == BitOr(Shl(o, d + 1), Sub(Shl(1, d), 1))

RECURSIVE depth_loop(_, _)
depth_loop(i, d) == IF is_odd(i) THEN depth_loop(Shr(i, 1), d + 1) ELSE d

depth(i) == depth_loop(i, 0)

\* offset_with_depth shifting an odd index by depth instead of depth + 1.
offset_with_depth_short_shift(i, d) == IF is_even(i) THEN Div(i, 2) ELSE Shr(i, d)

offset_with_depth(i, d) == IF is_even(i) THEN Div(i, 2) ELSE Shr(i, d + 1)

offset(i) == offset_with_depth(i, depth(i))

\* parent_with_depth keeping the node's own offset instead of halving it.
parent_with_depth_no_halving(i, d) == index(d + 1, offset_with_depth(i, d))

parent_with_depth(i, d) == index(d + 1, Shr(offset_with_depth(i, d), 1))

parent(i) == parent_with_depth(i, depth(i))

\* sibling_with_depth setting the low bit of the offset instead of flipping it.
sibling_with_depth_sets_bit(i, d) == index(d, BitOr(offset(i), 1))

sibling_with_depth(i, d) == index(d, BitXor(offset(i), 1))

sibling(i) == sibling_with_depth(i, depth(i))

uncle_with_depth(i, d) == sibling_with_depth(parent_with_depth(i, d), d + 1)

uncle(i) == uncle_with_depth(i, depth(i))

children_with_depth(i, d) ==
  IF is_even(i) THEN None
  ELSE IF d = 0 THEN Some(<<i, i>>)
  ELSE LET off == Mul(offset_with_depth(i, d), 2)
       IN  Some(<<index(d - 1, off), index(d - 1, Add(off, 1))>>)

children(i) == children_with_depth(i, depth(i))

\* left_child_with_depth keeping the node's own offset instead of doubling it.
left_child_with_depth_no_doubling(i, d) ==
  IF is_even(i) THEN None
  ELSE IF d = 0 THEN Some(i)
  ELSE Some(index(d - 1, offset_with_depth(i, d)))

left_child_with_depth(i, d) ==
  IF is_even(i) THEN None
  ELSE IF d = 0 THEN Some(i)
  ELSE Some(index(d - 1, Shl(offset_with_depth(i, d), 1)))

left_child(i) == left_child_with_depth(i, depth(i))

\* right_child_with_depth without the + 1: it returns the left child.
right_child_with_depth_no_increment(i, d) ==
  IF is_even(i) THEN None
  ELSE IF d = 0 THEN Some(i)
  ELSE Some(index(d - 1, Shl(offset_with_depth(i, d), 1)))

right_child_with_depth(i, d) ==
  IF is_even(i) THEN None
  ELSE IF d = 0 THEN Some(i)
  ELSE Some(index(d - 1, Add(Shl(offset_with_depth(i, d), 1), 1)))

right_child(i) == right_child_with_depth(i, depth(i))

\* right_span_with_depth without the - 2: one leaf past the subtree.
right_span_with_depth_past_end(i, d) ==
  IF d = 0 THEN i
  ELSE Mul(Add(offset_with_depth(i, d), 1), Shl(2, d))

right_span_with_depth(i, d) ==
  IF d = 0 THEN i
  ELSE Sub(Mul(Add(offset_with_depth(i, d), 1), Shl(2, d)), 2)

right_span(i) == right_span_with_depth(i, depth(i))

left_span_with_depth(i, d) ==
  IF d = 0 THEN i
  ELSE Mul(offset_with_depth(i, d), Shl(2, d))

left_span(i) == left_span_with_depth(i, depth(i))

spans_with_depth(i, d) == <<left_span_with_depth(i, d), right_span_with_depth(i, d)>>

spans(i) == spans_with_depth(i, depth(i))

\* count_with_depth counting from 1 << depth instead of 2 << depth.
count_with_depth_half(i, d) == Sub(Shl(1, d), 1)

count_with_depth(i, d) == Sub(Shl(2, d), 1)

count(i) == count_with_depth(i, depth(i))

(***************************************************************************)
(* lib.rs: the full-roots decomposition.  iter_full_roots asserts that the *)
(* index is even and panics otherwise: a call either returns a value or   *)
(* panics.                                                                 *)
(***************************************************************************)
Returned(v) == [panicked |-> FALSE, value |-> v]
Panicked == [panicked |-> TRUE, value |-> None]

FullRootsIterator(t, o) == [tmp |-> t, offset |-> o]
Yielded(r, v) == [roots |-> r, item |-> v]

\* iter_full_roots without its assert.
iter_full_roots_unchecked(i) == Returned(FullRootsIterator(Shr(i, 1), 0))

iter_full_roots(i) ==
  IF is_even(i) THEN Returned(FullRootsIterator(Shr(i, 1), 0)) ELSE Panicked

\* The doubling loop of FullRootsIterator::next stopping at factor * 2 < tmp.
RECURSIVE factor_loop_strict(_, _)
factor_loop_strict(factor, tmp) ==
  IF Mul(factor, 2) < tmp THEN factor_loop_strict(Mul(factor, 2), tmp) ELSE factor

RECURSIVE factor_loop(_, _)
factor_loop(factor, tmp) ==
  IF Mul(factor, 2) <= tmp THEN factor_loop(Mul(factor, 2), tmp) ELSE factor

\* FullRootsIterator::next advancing offset by factor instead of 2 * factor.
FullRootsIterator_next_single_stride(r) ==
  IF r.tmp = 0 THEN Yielded(r, None)
  ELSE LET factor == factor_loop(1, r.tmp)
           result == Sub(Add(r.offset, factor), 1)
       IN  Yielded(FullRootsIterator(Sub(r.tmp, factor), Add(r.offset, factor)),
                   Some(result))

\* FullRootsIterator::next taking one leaf off tmp instead of factor leaves.
FullRootsIterator_next_unit_step(r) ==
  IF r.tmp = 0 THEN Yielded(r, None)
  ELSE LET factor == factor_loop(1, r.tmp)
           result == Sub(Add(r.offset, factor), 1)
       IN  Yielded(FullRootsIterator(Sub(r.tmp, 1), Add(r.offset, Mul(2, factor))),
                   Some(result))

FullRootsIterator_next(r) ==
  IF r.tmp = 0 THEN Yielded(r, None)
  ELSE LET factor == factor_loop(1, r.tmp)
           result == Sub(Add(r.offset, factor), 1)
       IN  Yielded(FullRootsIterator(Sub(r.tmp, factor), Add(r.offset, Mul(2, factor))),
                   Some(result))

\* Vec::extend: every item of the iterator, in order, until it returns None.
RECURSIVE collect(_)
collect(r) ==
  LET y == FullRootsIterator_next(r)
  IN  IF y.item = None THEN << >> ELSE <<y.item[1]>> \o collect(y.roots)

full_roots(i, v) ==
  LET it == iter_full_roots(i)
  IN  IF it.panicked THEN Panicked ELSE Returned(v \o collect(it.value))

(***************************************************************************)
(* iterator.rs: two_pow and the cursor.  Each method is an operator from   *)
(* the cursor's fields to the fields after the call and the value          *)
(* returned.                                                               *)
(***************************************************************************)
two_pow(n) == IF n < 31 THEN Shl(1, n) ELSE Mul(Shl(1, 30), Shl(1, n - 30))

Cursor(i, o, f) == [index |-> i, offset |-> o, factor |-> f]
Moved(s, r) == [self |-> s, ret |-> r]

\* seek() leaving factor as it was when the index is even.
Iterator_seek_keeps_factor(s, j) ==
  IF is_odd(j)
  THEN Moved(Cursor(j, offset(j), two_pow(depth(j) + 1)), None)
  ELSE Moved(Cursor(j, Div(j, 2), s.factor), None)

Iterator_seek(s, j) ==
  IF is_odd(j)
  THEN Moved(Cursor(j, offset(j), two_pow(depth(j) + 1)), None)
  ELSE Moved(Cursor(j, Div(j, 2), 2), None)

Iterator_new(j) == Iterator_seek(Cursor(0, 0, 0), j).self

Iterator_default == Iterator_new(0)

Iterator_is_left(s) == is_even(s.offset)
Iterator_is_right(s) == is_odd(s.offset)

\* next() moving the index without counting the offset.
Iterator_next_keeps_offset(s) ==
  LET i == Add(s.index, s.factor)
  IN  Moved(Cursor(i, s.offset, s.factor), Some(i))

Iterator_next(s) ==
  LET i == Add(s.index, s.factor)
  IN  Moved(Cursor(i, Add(s.offset, 1), s.factor), Some(i))

\* prev() without the offset == 0 early return.
Iterator_prev_unguarded(s) ==
  LET i == Sub(s.index, s.factor)
  IN  Moved(Cursor(i, Sub(s.offset, 1), s.factor), i)

Iterator_prev(s) ==
  IF s.offset = 0 THEN Moved(s, s.index)
  ELSE LET i == Sub(s.index, s.factor)
       IN  Moved(Cursor(i, Sub(s.offset, 1), s.factor), i)

\* sibling() moving left whatever side the cursor is on.
Iterator_sibling_always_prev(s) == Iterator_prev(s)

\* sibling() moving right whatever side the cursor is on.
Iterator_sibling_always_next(s) ==
  LET m == Iterator_next(s) IN Moved(m.self, m.ret[1])

Iterator_sibling(s) ==
  IF Iterator_is_left(s)
  THEN LET m == Iterator_next(s) IN Moved(m.self, m.ret[1])
  ELSE Iterator_prev(s)

\* parent() with the odd-offset halving written offset - 1 / 2.
Iterator_parent_literal_half(s) ==
  LET i == IF is_odd(s.offset) THEN Sub(s.index, Div(s.factor, 2))
                               ELSE Add(s.index, Div(s.factor, 2))
      o == IF is_odd(s.offset) THEN Sub(s.offset, Div(1, 2))
                               ELSE Div(s.offset, 2)
  IN  Moved(Cursor(i, o, Mul(s.factor, 2)), i)

Iterator_parent(s) ==
  LET i == IF is_odd(s.offset) THEN Sub(s.index, Div(s.factor, 2))
                               ELSE Add(s.index, Div(s.factor, 2))
      o == IF is_odd(s.offset) THEN Div(Sub(s.offset, 1), 2)
                               ELSE Div(s.offset, 2)
  IN  Moved(Cursor(i, o, Mul(s.factor, 2)), i)

Iterator_left_span(s) ==
  LET i == Sub(Add(s.index, 1), Div(s.factor, 2))
  IN  Moved(Cursor(i, Div(i, 2), 2), i)

Iterator_right_span(s) ==
  LET i == Sub(Add(s.index, Div(s.factor, 2)), 1)
  IN  Moved(Cursor(i, Div(i, 2), 2), i)

\* left_child() without the factor == 2 early return.
Iterator_left_child_unguarded(s) ==
  LET f == Div(s.factor, 2)
      i == Sub(s.index, Div(f, 2))
  IN  Moved(Cursor(i, Mul(s.offset, 2), f), i)

Iterator_left_child(s) ==
  IF s.factor = 2 THEN Moved(s, s.index)
  ELSE LET f == Div(s.factor, 2)
           i == Sub(s.index, Div(f, 2))
       IN  Moved(Cursor(i, Mul(s.offset, 2), f), i)

Iterator_right_child(s) ==
  IF s.factor = 2 THEN Moved(s, s.index)
  ELSE LET f == Div(s.factor, 2)
           i == Add(s.index, Div(f, 2))
       IN  Moved(Cursor(i, Add(Mul(2, s.offset), 1), f), i)

(***************************************************************************)
(* The state.                                                              *)
(*   self                 the cursor's three fields                        *)
(*   op, pre, ret         the last cursor call, the fields before it and   *)
(*                        the value it returned                            *)
(*   arg_i, arg_d, arg_o  the inputs of the stateless functions            *)
(*   fn, out              the last stateless function applied, its value   *)
(*   roots                the FullRootsIterator (tmp, offset), or None     *)
(*   boundary             the index iter_full_roots / full_roots was given *)
(*   status               where the full-roots call stands                 *)
(*   emitted              what the FullRootsIterator has yielded so far    *)
(*   nodes, before        the Vec handed to full_roots, and its length     *)
(*                        when the last call started                       *)
(***************************************************************************)
VARIABLES self, op, pre, ret, arg_i, arg_d, arg_o, fn, out,
          roots, boundary, status, emitted, nodes, before

cursorVars == <<self, op, pre, ret>>
algebraVars == <<arg_i, arg_d, arg_o, fn, out>>
rootsVars == <<roots, boundary, status, emitted, nodes, before>>
vars == <<self, op, pre, ret, arg_i, arg_d, arg_o, fn, out,
          roots, boundary, status, emitted, nodes, before>>

CursorIdle == self = Cursor(0, 0, 0) /\ op = "none" /\ pre = Cursor(0, 0, 0) /\ ret = None
AlgebraIdle == arg_i = 0 /\ arg_d = 0 /\ arg_o = 0 /\ fn = "none" /\ out = None
RootsIdle ==
  /\ roots = None /\ boundary = 0 /\ status = "none"
  /\ emitted = << >> /\ nodes = << >> /\ before = 0

(***************************************************************************)
(* Where a cursor call stays within the width: no +, -, * leaves           *)
(* 0 .. UsizeMax and no shift amount reaches UsizeBits (a debug build      *)
(* panics otherwise, a release build wraps).                               *)
(***************************************************************************)
NoOverflow_Iterator_seek(j) == is_odd(j) => depth(j) + 1 < UsizeBits

NoOverflow_Iterator_next(s) == s.index + s.factor <= UsizeMax /\ s.offset + 1 <= UsizeMax

NoOverflow_Iterator_prev(s) == s.offset = 0 \/ s.index >= s.factor

NoOverflow_Iterator_sibling(s) ==
  IF Iterator_is_left(s) THEN NoOverflow_Iterator_next(s) ELSE NoOverflow_Iterator_prev(s)

NoOverflow_Iterator_parent(s) ==
  /\ IF is_odd(s.offset) THEN s.index >= s.factor \div 2
                         ELSE s.index + s.factor \div 2 <= UsizeMax
  /\ s.factor * 2 <= UsizeMax

NoOverflow_Iterator_left_span(s) == s.index + 1 <= UsizeMax /\ s.index + 1 >= s.factor \div 2

NoOverflow_Iterator_right_span(s) == s.index + s.factor \div 2 <= UsizeMax /\ s.index + s.factor \div 2 >= 1

NoOverflow_Iterator_left_child(s) ==
  s.factor = 2 \/ (s.index >= s.factor \div 4 /\ s.offset * 2 <= UsizeMax)

NoOverflow_Iterator_right_child(s) ==
  s.factor = 2 \/ (s.index + s.factor \div 4 <= UsizeMax /\ 2 * s.offset + 1 <= UsizeMax)

(***************************************************************************)
(* The cursor: Iterator::new(i), then any sequence of calls.               *)
(***************************************************************************)
Called(name, m) ==
  /\ self' = m.self
  /\ ret' = m.ret
  /\ op' = name
  /\ pre' = self
  /\ UNCHANGED algebraVars
  /\ UNCHANGED rootsVars

InitCursor ==
  /\ \E i \in Usize :
       /\ NoOverflow_Iterator_seek(i)
       /\ self = Iterator_new(i)
  /\ op = "new"
  /\ pre = Cursor(0, 0, 0)
  /\ ret = None
  /\ AlgebraIdle
  /\ RootsIdle

Seek == \E j \in Usize : NoOverflow_Iterator_seek(j) /\ Called("seek", Iterator_seek(self, j))

\* Iterator::next (NextCursor is the next-state relation).
Next_ == NoOverflow_Iterator_next(self) /\ Called("next", Iterator_next(self))

Prev == NoOverflow_Iterator_prev(self) /\ Called("prev", Iterator_prev(self))

Sibling == NoOverflow_Iterator_sibling(self) /\ Called("sibling", Iterator_sibling(self))

Parent == NoOverflow_Iterator_parent(self) /\ Called("parent", Iterator_parent(self))

LeftSpan == NoOverflow_Iterator_left_span(self) /\ Called("left_span", Iterator_left_span(self))

RightSpan == NoOverflow_Iterator_right_span(self) /\ Called("right_span", Iterator_right_span(self))

LeftChild == NoOverflow_Iterator_left_child(self) /\ Called("left_child", Iterator_left_child(self))

RightChild == NoOverflow_Iterator_right_child(self) /\ Called("right_child", Iterator_right_child(self))

NextCursor ==
  \/ Seek
  \/ Next_
  \/ Prev
  \/ Sibling
  \/ Parent
  \/ LeftSpan
  \/ RightSpan
  \/ LeftChild
  \/ RightChild

Spec == InitCursor /\ [][NextCursor]_vars

(***************************************************************************)
(* Where a stateless function stays within the width (the same rule as     *)
(* for the cursor: no shift amount reaches UsizeBits, no +, -, * leaves    *)
(* 0 .. UsizeMax).  Bits that << pushes out of the word are dropped in     *)
(* every build and are not an overflow in this sense.                      *)
(***************************************************************************)
NoOverflow_index(d, o) == d + 1 < UsizeBits

NoOverflow_offset_with_depth(i, d) == is_even(i) \/ d + 1 < UsizeBits

NoOverflow_offset(i) == NoOverflow_offset_with_depth(i, depth(i))

NoOverflow_parent_with_depth(i, d) ==
  /\ NoOverflow_offset_with_depth(i, d)
  /\ NoOverflow_index(d + 1, Shr(offset_with_depth(i, d), 1))

NoOverflow_parent(i) == NoOverflow_parent_with_depth(i, depth(i))

NoOverflow_sibling_with_depth(i, d) ==
  /\ NoOverflow_offset(i)
  /\ NoOverflow_index(d, BitXor(offset(i), 1))

NoOverflow_sibling(i) == NoOverflow_sibling_with_depth(i, depth(i))

NoOverflow_uncle_with_depth(i, d) ==
  /\ NoOverflow_parent_with_depth(i, d)
  /\ NoOverflow_sibling_with_depth(parent_with_depth(i, d), d + 1)

NoOverflow_uncle(i) == NoOverflow_uncle_with_depth(i, depth(i))

NoOverflow_children_with_depth(i, d) ==
  \/ is_even(i)
  \/ d = 0
  \/ /\ NoOverflow_offset_with_depth(i, d)
     /\ offset_with_depth(i, d) * 2 + 1 <= UsizeMax
     /\ NoOverflow_index(d - 1, offset_with_depth(i, d) * 2)

NoOverflow_children(i) == NoOverflow_children_with_depth(i, depth(i))

NoOverflow_left_child_with_depth(i, d) ==
  \/ is_even(i)
  \/ d = 0
  \/ /\ NoOverflow_offset_with_depth(i, d)
     /\ NoOverflow_index(d - 1, Shl(offset_with_depth(i, d), 1))

NoOverflow_left_child(i) == NoOverflow_left_child_with_depth(i, depth(i))

NoOverflow_right_child_with_depth(i, d) ==
  \/ is_even(i)
  \/ d = 0
  \/ /\ NoOverflow_offset_with_depth(i, d)
     /\ Shl(offset_with_depth(i, d), 1) + 1 <= UsizeMax
     /\ NoOverflow_index(d - 1, Shl(offset_with_depth(i, d), 1) + 1)

NoOverflow_right_child(i) == NoOverflow_right_child_with_depth(i, depth(i))

NoOverflow_right_span_with_depth(i, d) ==
  \/ d = 0
  \/ /\ NoOverflow_offset_with_depth(i, d)
     /\ d < UsizeBits
     /\ offset_with_depth(i, d) + 1 <= UsizeMax
     /\ (offset_with_depth(i, d) + 1) * Shl(2, d) <= UsizeMax
     /\ (offset_with_depth(i, d) + 1) * Shl(2, d) >= 2

NoOverflow_right_span(i) == NoOverflow_right_span_with_depth(i, depth(i))

NoOverflow_left_span_with_depth(i, d) ==
  \/ d = 0
  \/ /\ NoOverflow_offset_with_depth(i, d)
     /\ d < UsizeBits
     /\ offset_with_depth(i, d) * Shl(2, d) <= UsizeMax

NoOverflow_left_span(i) == NoOverflow_left_span_with_depth(i, depth(i))

NoOverflow_spans_with_depth(i, d) ==
  NoOverflow_left_span_with_depth(i, d) /\ NoOverflow_right_span_with_depth(i, d)

NoOverflow_spans(i) == NoOverflow_spans_with_depth(i, depth(i))

NoOverflow_count_with_depth(i, d) == d < UsizeBits /\ Shl(2, d) >= 1

NoOverflow_count(i) == NoOverflow_count_with_depth(i, depth(i))

(***************************************************************************)
(* The stateless functions: the inputs are drawn once, then any function   *)
(* is applied to them, any number of times.  The functions of an index     *)
(* read arg_i, the depth-qualified ones arg_i and arg_d, index reads       *)
(* arg_d and arg_o.                                                        *)
(***************************************************************************)
Depths == 0 .. UsizeBits

Applied(name, v) ==
  /\ fn' = name
  /\ out' = v
  /\ UNCHANGED <<arg_i, arg_d, arg_o>>
  /\ UNCHANGED cursorVars
  /\ UNCHANGED rootsVars

InitAlgebra ==
  /\ arg_i \in Usize
  /\ arg_d \in Depths
  /\ arg_o \in Usize
  /\ arg_i = 0 \/ arg_o = 0
  /\ fn = "none"
  /\ out = None
  /\ CursorIdle
  /\ RootsIdle

Apply_index == NoOverflow_index(arg_d, arg_o) /\ Applied("index", index(arg_d, arg_o))

Apply_depth == Applied("depth", depth(arg_i))

Apply_offset_with_depth ==
  /\ NoOverflow_offset_with_depth(arg_i, arg_d)
  /\ Applied("offset_with_depth", offset_with_depth(arg_i, arg_d))

Apply_offset == NoOverflow_offset(arg_i) /\ Applied("offset", offset(arg_i))

Apply_parent_with_depth ==
  /\ NoOverflow_parent_with_depth(arg_i, arg_d)
  /\ Applied("parent_with_depth", parent_with_depth(arg_i, arg_d))

Apply_parent == NoOverflow_parent(arg_i) /\ Applied("parent", parent(arg_i))

Apply_sibling_with_depth ==
  /\ NoOverflow_sibling_with_depth(arg_i, arg_d)
  /\ Applied("sibling_with_depth", sibling_with_depth(arg_i, arg_d))

Apply_sibling == NoOverflow_sibling(arg_i) /\ Applied("sibling", sibling(arg_i))

Apply_uncle_with_depth ==
  /\ NoOverflow_uncle_with_depth(arg_i, arg_d)
  /\ Applied("uncle_with_depth", uncle_with_depth(arg_i, arg_d))

Apply_uncle == NoOverflow_uncle(arg_i) /\ Applied("uncle", uncle(arg_i))

Apply_children_with_depth ==
  /\ NoOverflow_children_with_depth(arg_i, arg_d)
  /\ Applied("children_with_depth", children_with_depth(arg_i, arg_d))

Apply_children == NoOverflow_children(arg_i) /\ Applied("children", children(arg_i))

Apply_left_child_with_depth ==
  /\ NoOverflow_left_child_with_depth(arg_i, arg_d)
  /\ Applied("left_child_with_depth", left_child_with_depth(arg_i, arg_d))

Apply_left_child == NoOverflow_left_child(arg_i) /\ Applied("left_child", left_child(arg_i))

Apply_right_child_with_depth ==
  /\ NoOverflow_right_child_with_depth(arg_i, arg_d)
  /\ Applied("right_child_with_depth", right_child_with_depth(arg_i, arg_d))

Apply_right_child == NoOverflow_right_child(arg_i) /\ Applied("right_child", right_child(arg_i))

Apply_right_span_with_depth ==
  /\ NoOverflow_right_span_with_depth(arg_i, arg_d)
  /\ Applied("right_span_with_depth", right_span_with_depth(arg_i, arg_d))

Apply_right_span == NoOverflow_right_span(arg_i) /\ Applied("right_span", right_span(arg_i))

Apply_left_span_with_depth ==
  /\ NoOverflow_left_span_with_depth(arg_i, arg_d)
  /\ Applied("left_span_with_depth", left_span_with_depth(arg_i, arg_d))

Apply_left_span == NoOverflow_left_span(arg_i) /\ Applied("left_span", left_span(arg_i))

Apply_spans_with_depth ==
  /\ NoOverflow_spans_with_depth(arg_i, arg_d)
  /\ Applied("spans_with_depth", spans_with_depth(arg_i, arg_d))

Apply_spans == NoOverflow_spans(arg_i) /\ Applied("spans", spans(arg_i))

Apply_count_with_depth ==
  /\ NoOverflow_count_with_depth(arg_i, arg_d)
  /\ Applied("count_with_depth", count_with_depth(arg_i, arg_d))

Apply_count == NoOverflow_count(arg_i) /\ Applied("count", count(arg_i))

NextAlgebra ==
  \/ Apply_index
  \/ Apply_depth
  \/ Apply_offset_with_depth
  \/ Apply_offset
  \/ Apply_parent_with_depth
  \/ Apply_parent
  \/ Apply_sibling_with_depth
  \/ Apply_sibling
  \/ Apply_uncle_with_depth
  \/ Apply_uncle
  \/ Apply_children_with_depth
  \/ Apply_children
  \/ Apply_left_child_with_depth
  \/ Apply_left_child
  \/ Apply_right_child_with_depth
  \/ Apply_right_child
  \/ Apply_right_span_with_depth
  \/ Apply_right_span
  \/ Apply_left_span_with_depth
  \/ Apply_left_span
  \/ Apply_spans_with_depth
  \/ Apply_spans
  \/ Apply_count_with_depth
  \/ Apply_count

SpecAlgebra == InitAlgebra /\ [][NextAlgebra]_vars

(***************************************************************************)
(* The full-roots decomposition: a caller either builds the lazy iterator  *)
(* and pulls from it, or hands a Vec to full_roots, possibly several       *)
(* times.  A panic ends the run.                                           *)
(***************************************************************************)
Boundaries == 0 .. MaxBoundary

InitRoots ==
  /\ roots = None
  /\ boundary = 0
  /\ status = "start"
  /\ emitted = << >>
  /\ nodes = << >>
  /\ before = 0
  /\ CursorIdle
  /\ AlgebraIdle

IterFullRoots ==
  /\ status = "start"
  /\ \E i \in Boundaries :
       LET it == iter_full_roots(i)
       IN  /\ boundary' = i
           /\ IF it.panicked
              THEN roots' = None /\ status' = "panicked"
              ELSE roots' = Some(it.value) /\ status' = "iterating"
  /\ UNCHANGED <<emitted, nodes, before>>
  /\ UNCHANGED cursorVars
  /\ UNCHANGED algebraVars

FullRootsNext ==
  /\ status \in {"iterating", "done"}
  /\ LET y == FullRootsIterator_next(roots[1])
     IN  /\ roots' = Some(y.roots)
         /\ IF y.item = None
            THEN status' = "done" /\ emitted' = emitted
            ELSE status' = "iterating" /\ emitted' = Append(emitted, y.item[1])
  /\ UNCHANGED <<boundary, nodes, before>>
  /\ UNCHANGED cursorVars
  /\ UNCHANGED algebraVars

FullRoots ==
  /\ status \in {"start", "extended"}
  /\ Len(nodes) <= MaxNodes
  /\ \E i \in Boundaries :
       LET v == full_roots(i, nodes)
       IN  /\ boundary' = i
           /\ before' = Len(nodes)
           /\ IF v.panicked
              THEN nodes' = nodes /\ status' = "panicked"
              ELSE nodes' = v.value /\ status' = "extended"
  /\ UNCHANGED <<roots, emitted>>
  /\ UNCHANGED cursorVars
  /\ UNCHANGED algebraVars

NextRoots ==
  \/ IterFullRoots
  \/ FullRootsNext
  \/ FullRoots

SpecRoots == InitRoots /\ [][NextRoots]_vars

(***************************************************************************)
(* What the claims are stated with: the position arithmetic on the         *)
(* unbounded naturals.                                                     *)
(***************************************************************************)
MathIndex(d, o) == o * 2 ^ (d + 1) + 2 ^ d - 1

InWidth(d, o) == MathIndex(d, o) <= UsizeMax

FlipLowBit(o) == IF o % 2 = 0 THEN o + 1 ELSE o - 1

(***************************************************************************)
(* C1.  Cursor state consistency: in every state reached from              *)
(* Iterator::new(i) by seek, next, prev, sibling, parent, left_span,       *)
(* right_span, left_child and right_child calls that stay within the       *)
(* width, offset is offset(index), factor is 2^(depth(index)+1), and       *)
(* index = offset*factor + factor/2 - 1.                                   *)
(***************************************************************************)
CursorConsistent ==
  /\ self.offset = offset(self.index)
  /\ self.factor = 2 ^ (depth(self.index) + 1)
  /\ self.index = self.offset * self.factor + self.factor \div 2 - 1

\* parent() called on a right node above the leaves, after a child move.
CursorConsistentWitness ==
  /\ op = "parent"
  /\ pre.offset % 2 = 1
  /\ pre.factor = 8
  /\ self.index = 7
  /\ CursorConsistent

(***************************************************************************)
(* C2.  Cursor/function equivalence as claimed: every parent(), sibling(), *)
(* left_span(), right_span(), left_child() and right_child() call returns  *)
(* the value of the stateless function of the same name at the index the   *)
(* cursor had before the call (for the child moves, the stateless          *)
(* function's Option holds the returned value), and index() is that value  *)
(* afterwards.                                                             *)
(***************************************************************************)
CursorEqualsFunction ==
  /\ op = "parent" => ret = parent(pre.index) /\ self.index = ret
  /\ op = "sibling" => ret = sibling(pre.index) /\ self.index = ret
  /\ op = "left_span" => ret = left_span(pre.index) /\ self.index = ret
  /\ op = "right_span" => ret = right_span(pre.index) /\ self.index = ret
  /\ op = "left_child" => Some(ret) = left_child(pre.index) /\ self.index = ret
  /\ op = "right_child" => Some(ret) = right_child(pre.index) /\ self.index = ret

(***************************************************************************)
(* C2, amended.  The equivalence holds for parent, sibling, left_span and  *)
(* right_span at every index, and for left_child and right_child at every  *)
(* odd index.  At a leaf (even index) the cursor's left_child() and        *)
(* right_child() return the index unchanged, where the stateless           *)
(* functions return None.                                                  *)
(***************************************************************************)
CursorEqualsFunctionAboveLeaves ==
  /\ op = "parent" => ret = parent(pre.index) /\ self.index = ret
  /\ op = "sibling" => ret = sibling(pre.index) /\ self.index = ret
  /\ op = "left_span" => ret = left_span(pre.index) /\ self.index = ret
  /\ op = "right_span" => ret = right_span(pre.index) /\ self.index = ret
  /\ op = "left_child" =>
       /\ self.index = ret
       /\ IF pre.index % 2 = 1
          THEN Some(ret) = left_child(pre.index)
          ELSE ret = pre.index /\ left_child(pre.index) = None
  /\ op = "right_child" =>
       /\ self.index = ret
       /\ IF pre.index % 2 = 1
          THEN Some(ret) = right_child(pre.index)
          ELSE ret = pre.index /\ right_child(pre.index) = None

\* The step of tests/iterator.rs from 7 to 11.
CursorEqualsFunctionWitness == op = "right_child" /\ pre.index = 7 /\ ret = 11

(***************************************************************************)
(* C3.  Round trip between indices and (depth, offset) pairs:              *)
(* index(depth(i), offset(i)) = i, and for a depth d and an offset o whose *)
(* index lies within the width, depth(index(d, o)) = d and                 *)
(* offset_with_depth(index(d, o), d) = o.                                  *)
(***************************************************************************)
RoundTrip ==
  /\ fn = "offset" => index(depth(arg_i), out) = arg_i
  /\ (fn = "depth" /\ NoOverflow_offset(arg_i)) => index(out, offset(arg_i)) = arg_i
  /\ (fn = "index" /\ InWidth(arg_d, arg_o)) =>
       /\ out = MathIndex(arg_d, arg_o)
       /\ depth(out) = arg_d
       /\ offset_with_depth(out, arg_d) = arg_o

\* index(3, 1) = 23.
RoundTripWitness == fn = "index" /\ arg_d = 3 /\ arg_o = 1 /\ out = 23

(***************************************************************************)
(* C4.  Full-roots coverage: the roots emitted for the even boundary       *)
(* i = 2n tile the leaves [0, n): the first span starts at leaf index 0,   *)
(* each next span starts two past the end of the one before, the last      *)
(* ends at i - 2, the leaf counts do not increase, and they sum to n;      *)
(* nothing is emitted for n = 0.  It holds of what the iterator has        *)
(* yielded once it returns None, and of what full_roots appended.          *)
(***************************************************************************)
Leaves(r) == (right_span(r) - left_span(r)) \div 2 + 1

RECURSIVE SumLeaves(_)
SumLeaves(rs) == IF rs = << >> THEN 0 ELSE Leaves(Head(rs)) + SumLeaves(Tail(rs))

Tiles(rs, i) ==
  /\ i = 0 => rs = << >>
  /\ rs # << >> => left_span(rs[1]) = 0 /\ right_span(rs[Len(rs)]) = i - 2
  /\ \A j \in 1 .. Len(rs) - 1 :
       /\ left_span(rs[j + 1]) = right_span(rs[j]) + 2
       /\ Leaves(rs[j + 1]) <= Leaves(rs[j])
  /\ SumLeaves(rs) = i \div 2

FullRootsCoverage ==
  /\ status = "done" => Tiles(emitted, boundary)
  /\ status = "extended" => Tiles(SubSeq(nodes, before + 1, Len(nodes)), boundary)

\* iter_full_roots(20) has yielded 7 and 17 and then None.
FullRootsCoverageWitness == status = "done" /\ boundary = 20 /\ emitted = <<7, 17>>

(***************************************************************************)
(* C5.  Odd boundary as claimed: a full-roots call with an odd index       *)
(* fails with an error the caller can recover from, not an abort, and      *)
(* emits no root.                                                          *)
(***************************************************************************)
OddBoundaryIsRecoverable ==
  boundary % 2 = 1 =>
    /\ status # "panicked"
    /\ emitted = << >>
    /\ Len(nodes) = before

(***************************************************************************)
(* C5, amended.  A full-roots call with an odd index panics (the assert    *)
(* of iter_full_roots): no iterator is built, no root is emitted, and the  *)
(* Vec handed to full_roots keeps its contents.                            *)
(***************************************************************************)
OddBoundaryPanics ==
  boundary % 2 = 1 =>
    /\ status = "panicked"
    /\ roots = None
    /\ emitted = << >>
    /\ Len(nodes) = before

\* full_roots(7, nodes) after full_roots(8, nodes) has appended 3.
OddBoundaryPanicsWitness == status = "panicked" /\ boundary = 7 /\ nodes = <<3>>

(***************************************************************************)
(* C6.  Parent monotonicity as claimed: parent(i) > i and                  *)
(* depth(parent(i)) = depth(i) + 1 for every i, so that a cursor's         *)
(* parent() move from i lands on a greater index.                          *)
(***************************************************************************)
ParentIsGreater ==
  fn = "parent" =>
    /\ out > arg_i
    /\ depth(out) = depth(arg_i) + 1
    /\ Iterator_parent(Iterator_new(arg_i)).ret > arg_i

(***************************************************************************)
(* C6, amended.  parent(i) > i when i is a left node (offset(i) even) and  *)
(* parent(i) < i when i is a right node (offset(i) odd); in both cases     *)
(* depth(parent(i)) = depth(i) + 1, and a cursor's parent() move from i    *)
(* lands on parent(i): its moves climb one depth at a time and never       *)
(* revisit an index.                                                       *)
(***************************************************************************)
ParentClimbs ==
  fn = "parent" =>
    /\ offset(arg_i) % 2 = 0 => out > arg_i
    /\ offset(arg_i) % 2 = 1 => out < arg_i
    /\ depth(out) = depth(arg_i) + 1
    /\ Iterator_parent(Iterator_new(arg_i)).ret = out

\* parent(2) = 1: the parent of a right leaf lies below it.
ParentClimbsWitness == fn = "parent" /\ arg_i = 2 /\ out = 1

(***************************************************************************)
(* C7.  Sibling involution: sibling(sibling(i)) = i, sibling(i) # i,       *)
(* depth(sibling(i)) = depth(i), offset(sibling(i)) = offset(i) xor 1.     *)
(***************************************************************************)
SiblingInvolution ==
  fn = "sibling" =>
    /\ sibling(out) = arg_i
    /\ out # arg_i
    /\ depth(out) = depth(arg_i)
    /\ offset(out) = FlipLowBit(offset(arg_i))

\* sibling(5) = 1.
SiblingInvolutionWitness == fn = "sibling" /\ arg_i = 5 /\ out = 1

(***************************************************************************)
(* C8.  Children: children, left_child and right_child return None for an  *)
(* even index; for an odd index of depth d and offset o, children returns  *)
(* the pair index(d-1, 2o), index(d-1, 2o+1), whose parts are what         *)
(* left_child and right_child return.                                      *)
(***************************************************************************)
ChildrenOfIndex ==
  LET d == depth(arg_i)
      o == offset(arg_i)
  IN  /\ (fn = "children" /\ arg_i % 2 = 0) => out = None
      /\ (fn = "left_child" /\ arg_i % 2 = 0) => out = None
      /\ (fn = "right_child" /\ arg_i % 2 = 0) => out = None
      /\ (fn = "children" /\ arg_i % 2 = 1) =>
           /\ out = Some(<<MathIndex(d - 1, 2 * o), MathIndex(d - 1, 2 * o + 1)>>)
           /\ out = Some(<<index(d - 1, 2 * o), index(d - 1, 2 * o + 1)>>)
           /\ left_child(arg_i) = Some(out[1][1])
           /\ right_child(arg_i) = Some(out[1][2])
      /\ (fn = "left_child" /\ arg_i % 2 = 1) => out = Some(MathIndex(d - 1, 2 * o))
      /\ (fn = "right_child" /\ arg_i % 2 = 1) => out = Some(MathIndex(d - 1, 2 * o + 1))

\* children(9) = (8, 10).
ChildrenOfIndexWitness == fn = "children" /\ arg_i = 9 /\ out = Some(<<8, 10>>)

(***************************************************************************)
(* C9.  Parent/child round trip: the parent of either child of an odd      *)
(* index is that index; every index is exactly one of the two children of  *)
(* its parent, the left one iff its offset is even; and k parent steps     *)
(* from leaf 0 followed by k left_child steps end at 0.                    *)
(***************************************************************************)
RECURSIVE ParentTimes(_, _)
ParentTimes(k, i) == IF k = 0 THEN i ELSE ParentTimes(k - 1, parent(i))

RECURSIVE LeftChildTimes(_, _)
LeftChildTimes(k, i) == IF k = 0 THEN i ELSE LeftChildTimes(k - 1, left_child(i)[1])

ParentChildRoundTrip ==
  /\ (fn = "left_child" /\ arg_i % 2 = 1) => parent(out[1]) = arg_i
  /\ (fn = "right_child" /\ arg_i % 2 = 1) => parent(out[1]) = arg_i
  /\ fn = "parent" =>
       LET c == children(out)
       IN  /\ c # None
           /\ c[1][1] # c[1][2]
           /\ arg_i = c[1][1] <=> offset(arg_i) % 2 = 0
           /\ arg_i = c[1][2] <=> offset(arg_i) % 2 = 1
  /\ (fn = "parent" /\ arg_d + 2 <= UsizeBits) =>
       /\ ParentTimes(arg_d, 0) = 2 ^ arg_d - 1
       /\ LeftChildTimes(arg_d, ParentTimes(arg_d, 0)) = 0

\* left_child(11) = 9 leads back to 11; four steps up from leaf 0 and down.
ParentChildRoundTripWitness ==
  fn = "left_child" /\ arg_i = 11 /\ out = Some(9) /\ ParentTimes(4, 0) = 15

(***************************************************************************)
(* C10.  Leaf-count relation: left_span(i) and right_span(i) are even,     *)
(* left_span(i) <= i <= right_span(i),                                     *)
(* (right_span(i) - left_span(i)) / 2 + 1 = 2^depth(i), and spans(i) is    *)
(* the pair of the two.                                                    *)
(***************************************************************************)
LeafCount ==
  /\ fn = "spans" =>
       /\ out = <<left_span(arg_i), right_span(arg_i)>>
       /\ out[1] % 2 = 0 /\ out[2] % 2 = 0
       /\ out[1] <= arg_i /\ arg_i <= out[2]
       /\ (out[2] - out[1]) \div 2 + 1 = 2 ^ depth(arg_i)
  /\ fn = "left_span" => out % 2 = 0 /\ out <= arg_i /\ out = arg_i + 1 - 2 ^ depth(arg_i)
  /\ fn = "right_span" => out % 2 = 0 /\ arg_i <= out /\ out = arg_i + 2 ^ depth(arg_i) - 1

\* spans(23) = (16, 30).
LeafCountWitness == fn = "spans" /\ arg_i = 23 /\ out = <<16, 30>>

(***************************************************************************)
(* C11.  Count: count(i) = 2^(depth(i)+1) - 1, the number of indices from  *)
(* left_span(i) to right_span(i), and the same for every index of the      *)
(* same depth whatever its offset.                                         *)
(***************************************************************************)
CountOfSubtree ==
  /\ fn = "count" =>
       /\ out = 2 ^ (depth(arg_i) + 1) - 1
       /\ NoOverflow_spans(arg_i) => out = right_span(arg_i) - left_span(arg_i) + 1
       /\ \A j \in Usize :
            (depth(j) = depth(arg_i) /\ NoOverflow_count(j)) => count(j) = out
  /\ fn = "count_with_depth" => out = 2 ^ (arg_d + 1) - 1

\* count(23) = 15.
CountOfSubtreeWitness == fn = "count" /\ arg_i = 23 /\ out = 15

(***************************************************************************)
(* C12.  The depth-qualified variants use the depth they are given:        *)
(* sibling_with_depth(i, d) = index(d, offset_with_depth(i, d) xor 1) for  *)
(* every i and d, also when d is not depth(i).                             *)
(***************************************************************************)
SiblingTrustsDepth ==
  fn = "sibling_with_depth" =>
    out = index(arg_d, BitXor(offset_with_depth(arg_i, arg_d), 1))

(***************************************************************************)
(* C13.  Overflow is guarded: index(depth, offset) never returns a value   *)
(* other than offset * 2^(depth+1) + 2^depth - 1.                          *)
(***************************************************************************)
IndexIsExact == fn = "index" => out = MathIndex(arg_d, arg_o)

(***************************************************************************)
(* C14.  Full roots are the binary decomposition of n = i / 2: with f_k    *)
(* the leaf count of the k-th root and c_k the leaves covered before it,   *)
(* f_k = 2^depth(root_k) is the largest power of two not above n - c_k,    *)
(* root_k = 2 * c_k + f_k - 1, and f_1 > f_2 > ...; once the iterator      *)
(* has returned None (or full_roots has appended) the f_k are exactly the  *)
(* powers of two of the binary representation of n, so there are           *)
(* popcount(n) roots.                                                      *)
(***************************************************************************)
RECURSIVE Popcount(_)
Popcount(n) == IF n = 0 THEN 0 ELSE (n % 2) + Popcount(n \div 2)

BitsOf(n) == {b \in 0 .. UsizeBits : (n \div 2 ^ b) % 2 = 1}

RootLeaves(rs, k) == 2 ^ depth(rs[k])

RECURSIVE Covered(_, _)
Covered(rs, k) == IF k <= 1 THEN 0 ELSE Covered(rs, k - 1) + RootLeaves(rs, k - 1)

Decomposes(rs, n, complete) ==
  /\ \A k \in 1 .. Len(rs) :
       /\ RootLeaves(rs, k) <= n - Covered(rs, k)
       /\ n - Covered(rs, k) < 2 * RootLeaves(rs, k)
       /\ rs[k] = 2 * Covered(rs, k) + RootLeaves(rs, k) - 1
       /\ k > 1 => RootLeaves(rs, k) < RootLeaves(rs, k - 1)
  /\ Len(rs) <= Popcount(n)
  /\ complete =>
       /\ Len(rs) = Popcount(n)
       /\ {RootLeaves(rs, k) : k \in 1 .. Len(rs)} = {2 ^ b : b \in BitsOf(n)}

BinaryDecomposition ==
  /\ status = "iterating" => Decomposes(emitted, boundary \div 2, FALSE)
  /\ status = "done" => Decomposes(emitted, boundary \div 2, TRUE)
  /\ status = "extended" =>
       Decomposes(SubSeq(nodes, before + 1, Len(nodes)), boundary \div 2, TRUE)

\* iter_full_roots(22): n = 11 = 8 + 2 + 1 gives the roots 7, 17 and 20.
BinaryDecompositionWitness ==
  status = "done" /\ boundary = 22 /\ emitted = <<7, 17, 20>>

(***************************************************************************)
(* C15.  The full-roots iterator is lazy and terminates:                   *)
(* iter_full_roots(2n) yields nothing by itself and starts at tmp = n,     *)
(* offset = 0; a next() call with tmp > 0 yields exactly one root and      *)
(* strictly decreases tmp; offset = 2 * (n - tmp) throughout, and the      *)
(* roots yielded never outnumber the leaves covered, n - tmp, so tmp is    *)
(* 0 after at most n calls; from then on next() returns None and leaves    *)
(* tmp and offset as they are.                                             *)
(***************************************************************************)
LazyInv ==
  status \in {"iterating", "done"} =>
    LET r == roots[1]
        n == boundary \div 2
    IN  /\ r.tmp <= n
        /\ r.offset = 2 * (n - r.tmp)
        /\ Len(emitted) <= n - r.tmp
        /\ status = "done" => r.tmp = 0

LazyStep ==
  /\ (status = "start" /\ status' = "iterating") =>
       /\ emitted' = << >>
       /\ roots' = Some(FullRootsIterator(boundary' \div 2, 0))
  /\ (status \in {"iterating", "done"} /\ status' \in {"iterating", "done"}) =>
       IF roots[1].tmp = 0
       THEN status' = "done" /\ roots' = roots /\ emitted' = emitted
       ELSE /\ status' = "iterating"
            /\ roots'[1].tmp < roots[1].tmp
            /\ Len(emitted') = Len(emitted) + 1

FullRootsLazy == [](LazyInv) /\ [][LazyStep]_vars

\* iter_full_roots(12) after its two roots and the None that follows.
FullRootsLazyWitness ==
  /\ status = "done"
  /\ boundary = 12
  /\ Len(emitted) = 2
  /\ roots = Some(FullRootsIterator(0, 12))

(***************************************************************************)
(* C16.  Cursor next() never fails and is monotonic: every next() call     *)
(* returns Some(index + factor), never None, moves the index there, adds   *)
(* exactly 1 to offset and leaves factor alone, so successive calls walk   *)
(* strictly increasing indices of one depth.                               *)
(***************************************************************************)
NextIsMonotonic ==
  op = "next" =>
    /\ ret # None
    /\ ret = Some(pre.index + pre.factor)
    /\ self.index = pre.index + pre.factor
    /\ self.offset = pre.offset + 1
    /\ self.factor = pre.factor
    /\ self.index > pre.index
    /\ depth(self.index) = depth(pre.index)

\* tests/iterator.rs: next() at 9 returns Some(13).
NextIsMonotonicWitness == op = "next" /\ pre.index = 9 /\ ret = Some(13)

(***************************************************************************)
(* C17.  prev() at the boundary: with offset = 0 it returns the current    *)
(* index and changes no field; with offset > 0 it returns index - factor,  *)
(* moves there, takes 1 off offset and leaves factor alone; and a next()   *)
(* followed by a prev() restores the fields the cursor had.                *)
(***************************************************************************)
PrevBoundary ==
  /\ op = "prev" =>
       IF pre.offset = 0
       THEN ret = pre.index /\ self = pre
       ELSE /\ ret = pre.index - pre.factor
            /\ self = Cursor(pre.index - pre.factor, pre.offset - 1, pre.factor)
  /\ NoOverflow_Iterator_next(self) =>
       Iterator_prev(Iterator_next(self).self).self = self
  /\ op = "next" => Iterator_prev(self).self = pre

\* prev() on the first node of depth 2.
PrevBoundaryWitness == op = "prev" /\ pre = Cursor(3, 0, 8) /\ ret = 3 /\ self = pre

(***************************************************************************)
(* C18.  Child moves at the leaves are no-ops: with factor = 2,            *)
(* left_child() and right_child() return the current index and change no   *)
(* field; with factor > 2 they halve factor and move to an index one       *)
(* depth lower.                                                            *)
(***************************************************************************)
ChildMoveAtLeaf ==
  op \in {"left_child", "right_child"} =>
    IF pre.factor = 2
    THEN ret = pre.index /\ self = pre
    ELSE /\ pre.factor > 2
         /\ self.factor = pre.factor \div 2
         /\ 2 * self.factor = pre.factor
         /\ depth(self.index) = depth(pre.index) - 1
         /\ ret = self.index

\* left_child() on leaf 12.
ChildMoveAtLeafWitness == op = "left_child" /\ pre = Cursor(12, 6, 2) /\ ret = 12 /\ self = pre

(***************************************************************************)
(* C19.  Cursor sibling() as claimed: it acts as next() on a left node     *)
(* and as prev() on a right node, and there is an index i for which a      *)
(* cursor freshly positioned at i is not back at i after two sibling()     *)
(* calls.                                                                  *)
(***************************************************************************)
SiblingActsAsNextOrPrev ==
  op = "sibling" =>
    IF pre.offset % 2 = 0
    THEN self = Iterator_next(pre).self /\ Some(ret) = Iterator_next(pre).ret
    ELSE self = Iterator_prev(pre).self /\ ret = Iterator_prev(pre).ret

SiblingTwice(i) == Iterator_sibling(Iterator_sibling(Iterator_new(i)).self)

SiblingNotSymmetric ==
  /\ SiblingActsAsNextOrPrev
  /\ \E i \in Usize :
       /\ NoOverflow_Iterator_seek(i)
       /\ NoOverflow_Iterator_sibling(Iterator_new(i))
       /\ SiblingTwice(i).self.index # i

(***************************************************************************)
(* C19, amended.  sibling() acts as next() on a left node and as prev()    *)
(* on a right node, and two sibling() calls in a row always return to the  *)
(* start: the first lands on the other side of the pair, so the second     *)
(* undoes it, from a freshly positioned cursor and from any other state.   *)
(***************************************************************************)
FreshSiblingTwiceReturns ==
  \A i \in Usize :
    (NoOverflow_Iterator_seek(i) /\ NoOverflow_Iterator_sibling(Iterator_new(i))) =>
      /\ SiblingTwice(i).self = Iterator_new(i)
      /\ SiblingTwice(i).ret = i

SiblingTwiceReturns ==
  /\ SiblingActsAsNextOrPrev
  /\ op = "sibling" =>
       /\ self.offset % 2 # pre.offset % 2
       /\ NoOverflow_Iterator_sibling(self)
       /\ Iterator_sibling(self).self = pre
       /\ Iterator_sibling(self).ret = pre.index
  /\ FreshSiblingTwiceReturns

\* The doc example of sibling(): from 4 to 6.
SiblingTwiceReturnsWitness ==
  op = "sibling" /\ pre.index = 4 /\ ret = 6 /\ Iterator_sibling(self).ret = 4

(***************************************************************************)
(* C20.  seek resynchronizes whatever came before: from every reachable    *)
(* state and for every j, seek(j) leaves the fields of Iterator::new(j),   *)
(* that is index = j with offset = j / 2 and factor = 2 when j is even,    *)
(* offset = offset(j) and factor = 2^(depth(j)+1) when j is odd; and       *)
(* Iterator::default() is Iterator::new(0).                                *)
(***************************************************************************)
Seekable == {j \in Usize : NoOverflow_Iterator_seek(j)}

NewCursor == [j \in Seekable |-> Iterator_new(j)]

NewCursorFields ==
  \A j \in Seekable :
    /\ NewCursor[j].index = j
    /\ IF j % 2 = 0
       THEN NewCursor[j].offset = j \div 2 /\ NewCursor[j].factor = 2
       ELSE NewCursor[j].offset = offset(j) /\ NewCursor[j].factor = 2 ^ (depth(j) + 1)

SeekResynchronizes ==
  /\ \A j \in Seekable : Iterator_seek(self, j).self = NewCursor[j]
  /\ op = "seek" => self = NewCursor[self.index]
  /\ NewCursorFields
  /\ Iterator_default = Iterator_new(0)
  /\ Iterator_default = Cursor(0, 0, 2)

\* seek(4) on a cursor that stood at depth 2.
SeekResynchronizesWitness == op = "seek" /\ pre.factor = 8 /\ self = Cursor(4, 2, 2)

(***************************************************************************)
(* two_pow at the width of a real target.  The cursor's specification      *)
(* runs on a word of UsizeBits bits, where two_pow never takes its second  *)
(* branch; here a usize of w bits is the sequence of its 8-bit limbs,      *)
(* least significant first, so that a 32-bit and a 64-bit word can be      *)
(* computed with.  << drops the bits shifted out and takes the amount      *)
(* modulo the width (release build) and reports an amount that reaches     *)
(* the width (the debug build's panic); * keeps the low bits of the        *)
(* product and reports a product that does not fit.                        *)
(***************************************************************************)
SmallTargetBits == 32
TargetBits == 64
TargetWidths == {SmallTargetBits, TargetBits}

Limbs(w) == (w + 7) \div 8
TopBits(w) == w - 8 * (Limbs(w) - 1)

LimbAt(x, i) == IF i \in 1 .. Len(x) THEN x[i] ELSE 0

\* The low w bits of x.
Truncate(w, x) ==
  [i \in 1 .. Limbs(w) |->
     IF i = Limbs(w) THEN LimbAt(x, i) % 2 ^ TopBits(w) ELSE LimbAt(x, i)]

\* x has no bit at or above position w.
Fits(w, x) ==
  \A i \in 1 .. Len(x) :
    /\ i > Limbs(w) => x[i] = 0
    /\ i = Limbs(w) => x[i] < 2 ^ TopBits(w)

\* The literal 1 as a usize of w bits.
Word_one(w) == [i \in 1 .. Limbs(w) |-> IF i = 1 THEN 1 ELSE 0]

\* x moved up by k bits, in len limbs.
Shifted(x, k, len) ==
  [i \in 1 .. len |->
     ((LimbAt(x, i - k \div 8) * 2 ^ (k % 8)) % 256)
       + (LimbAt(x, i - k \div 8 - 1) * 2 ^ (k % 8)) \div 256]

Word_shl(w, x, n) ==
  [value |-> Truncate(w, Shifted(x, n % w, Limbs(w))), overflow |-> n >= w]

\* The sum of the partial products x[i] * y[j] that fall on limb k.
RECURSIVE ColumnSum(_, _, _, _)
ColumnSum(x, y, k, i) ==
  IF i > Len(x) THEN 0
  ELSE x[i] * LimbAt(y, k + 1 - i) + ColumnSum(x, y, k, i + 1)

RECURSIVE ProductLimbs(_, _, _, _, _)
ProductLimbs(x, y, k, carry, len) ==
  IF k > len THEN << >>
  ELSE LET s == ColumnSum(x, y, k, 1) + carry
       IN  <<s % 256>> \o ProductLimbs(x, y, k + 1, s \div 256, len)

Word_mul(w, x, y) ==
  LET p == ProductLimbs(x, y, 1, 0, 2 * Limbs(w))
  IN  [value |-> Truncate(w, p), overflow |-> ~Fits(w, p)]

\* two_pow shifting by n, not n - 30, in its second factor.
two_pow_on_whole_shift(w, n) ==
  IF n < 31
  THEN LET s == Word_shl(w, Word_one(w), n)
       IN  [value |-> s.value, shift_overflow |-> s.overflow, mul_overflow |-> FALSE]
  ELSE LET a == Word_shl(w, Word_one(w), 30)
           b == Word_shl(w, Word_one(w), n)
           m == Word_mul(w, a.value, b.value)
       IN  [value |-> m.value,
            shift_overflow |-> a.overflow \/ b.overflow,
            mul_overflow |-> m.overflow]

\* two_pow on a target whose usize has w bits.
two_pow_on(w, n) ==
  IF n < 31
  THEN LET s == Word_shl(w, Word_one(w), n)
       IN  [value |-> s.value, shift_overflow |-> s.overflow, mul_overflow |-> FALSE]
  ELSE LET a == Word_shl(w, Word_one(w), 30)
           b == Word_shl(w, Word_one(w), n - 30)
           m == Word_mul(w, a.value, b.value)
       IN  [value |-> m.value,
            shift_overflow |-> a.overflow \/ b.overflow,
            mul_overflow |-> m.overflow]

(***************************************************************************)
(* two_pow applied to every exponent below the width: arg_d is the width   *)
(* of the target, arg_i the exponent.                                      *)
(***************************************************************************)
InitTwoPow ==
  /\ arg_d \in TargetWidths
  /\ arg_i \in 0 .. arg_d - 1
  /\ arg_o = 0
  /\ fn = "none"
  /\ out = None
  /\ CursorIdle
  /\ RootsIdle

Apply_two_pow == Applied("two_pow", two_pow_on(arg_d, arg_i))

NextTwoPow == Apply_two_pow

SpecTwoPow == InitTwoPow /\ [][NextTwoPow]_vars

(***************************************************************************)
(* C21.  two_pow(n) = 2^n for every exponent 0 <= n < w on a w-bit         *)
(* target: the result has bit n set and no other, no shift amount reaches  *)
(* the width and the product of the second branch fits the word.           *)
(***************************************************************************)
Pow2Word(w, n) == [i \in 1 .. Limbs(w) |-> IF i = n \div 8 + 1 THEN 2 ^ (n % 8) ELSE 0]

RECURSIVE WordToNat(_)
WordToNat(x) == IF x = << >> THEN 0 ELSE Head(x) + 256 * WordToNat(Tail(x))

TwoPowExact ==
  fn = "two_pow" =>
    /\ ~out.shift_overflow
    /\ ~out.mul_overflow
    /\ out.value = Pow2Word(arg_d, arg_i)
    /\ arg_i <= 30 => WordToNat(out.value) = 2 ^ arg_i

\* test_two_pow_64bit: two_pow(63) = 9223372036854775808.
TwoPowExactWitness ==
  /\ fn = "two_pow"
  /\ arg_d = 64
  /\ arg_i = 63
  /\ out.value[8] = 128
  /\ ~out.mul_overflow

====
